---- MODULE Spec2Model ----
(***************************************************************************)
(* The device tracer of paddle/fluid/platform/device_tracer.cc             *)
(* (DeviceTracerImpl, the PADDLE_WITH_CUPTI build): the correlation table, *)
(* the kernel record log, the Enable/Disable life cycle, the CUPTI buffer  *)
(* and launch callbacks, and GenProfile; DeviceTracerDummy, the build      *)
(* without the source; and GetDeviceTracer with its std::call_once.        *)
(*                                                                         *)
(* Every method of DeviceTracerImpl but Disable holds trace_mu_ from its   *)
(* first to its last statement, so each is one atomic action.  Disable     *)
(* flushes the source before it takes the mutex: it waits for the flush    *)
(* to return ("flushing"), then runs its locked part ("flushed").          *)
(*                                                                         *)
(* Spec is the life cycle driven through the source, SpecApi the public    *)
(* methods called directly, SpecLaunch the launch callback among threads   *)
(* that set annotations, SpecDrain bufferCompleted on whole buffers,       *)
(* SpecLive Disable under fair scheduling, SpecOnce GetDeviceTracer and    *)
(* SpecDummy the dummy tracer.                                             *)
(*                                                                         *)
(* Integer widths are scaled down: uint64_t is UInt64Bits wide, int is     *)
(* IntBits wide and the uint32_t key of correlations_ is UInt32Bits wide.  *)
(***************************************************************************)
EXTENDS Integers, Sequences, FiniteSets, TLC

\* ------------------------------------------------------------- bounds
UInt64Bits == 4
IntBits == 3
UInt32Bits == 1
MaxLog == 2
MaxClock == 1
MaxSource == 1
MaxBuffer == 4

UInt64Mod == 2 ^ UInt64Bits
IntMod == 2 ^ IntBits
UInt32Mod == 2 ^ UInt32Bits

\* ------------------------------------------------------------- input sets
Threads == {"t1", "t2"}
Names == {"matmul_0", "conv_1"}
SymbolName == "kernel_sym"
NullAnno == "nullptr"
\* timestamps handed to AddKernelRecords by a direct caller
TimeValues == {0, 3}
\* ids handed to AddAnnotation: two keys, and one id that exceeds the key width
AnnotationIds == {0, 1, UInt32Mod}
CorrelationIds == {0, 1}
DeviceIds == {0}
StreamIds == {1}
\* the start and end of the activities the source reports
SourceSpans == {<<0, 3>>}
\* what an uninitialised uint64_t member may hold
Indeterminate == {0, UInt64Mod - 1}

\* ------------------------------------------------------------- conversions
\* conversion to uint64_t: modulo 2^64
ToUInt64(x) == x % UInt64Mod

\* a key as wide as the id AddAnnotation is given
ToUInt32Wide(x) == x

\* conversion to the uint32_t key of correlations_: modulo 2^32
ToUInt32(x) == x % UInt32Mod

\* conversion of a uint64_t to int: the low bits, read as two's complement
ToInt(x) ==
  LET m == x % IntMod
  IN  IF m >= IntMod \div 2 THEN m - IntMod ELSE m

\* ------------------------------------------------------------- state
VARIABLES
  enabled_,          \* DeviceTracerImpl::enabled_
  start_ns_,         \* DeviceTracerImpl::start_ns_
  end_ns_,           \* DeviceTracerImpl::end_ns_
  kernel_records_,   \* DeviceTracerImpl::kernel_records_
  correlations_,     \* DeviceTracerImpl::correlations_
  subscriber_,       \* DeviceTracerImpl::subscriber_
  cur_annotation,    \* thread_local cur_annotation, one per thread
  cupti,             \* the state of the external source
  pending,           \* activity records buffered in the source
  inflight,          \* the records of the buffer bufferCompleted is draining
  disable_pc,        \* the position of the thread inside Disable
  exited,            \* the process has called exit(-1)
  call,              \* the most recent call: its name, arguments and result
  hist,              \* what the source answered to the last Enable and Disable
  tracer,            \* the global DeviceTracer *tracer: 0 is nullptr
  tracer_once_flag,  \* the global std::once_flag tracer_once_flag
  getter,            \* each thread's position inside GetDeviceTracer
  trace_mu_          \* DeviceTracerImpl::trace_mu_: who holds the mutex

vars ==
  <<enabled_, start_ns_, end_ns_, kernel_records_, correlations_, subscriber_,
    cur_annotation, cupti, pending, inflight, disable_pc, exited, call, hist,
    tracer, tracer_once_flag, getter, trace_mu_>>

\* the globals behind GetDeviceTracer
onceVars == <<tracer, tracer_once_flag, getter>>

\* ------------------------------------------------------------- records
KernelRecord(start, end, device_id, stream_id, correlation_id) ==
  [start_ns |-> start, end_ns |-> end, device_id |-> device_id,
   stream_id |-> stream_id, correlation_id |-> correlation_id]

\* kernel_records_.push_back(KernelRecord{start, end, device_id, stream_id,
\* correlation_id})
PushRecordSwapped(records, start, end, device_id, stream_id, correlation_id) ==
  Append(records, KernelRecord(end, start, device_id, stream_id, correlation_id))

PushRecord(records, start, end, device_id, stream_id, correlation_id) ==
  Append(records, KernelRecord(start, end, device_id, stream_id, correlation_id))

\* the event GenProfile adds for record r once it has been resolved to name
MakeEventSwapped(r, name) ==
  [name |-> name, start_ns |-> r.start_ns, end_ns |-> r.end_ns,
   stream_id |-> r.device_id, device_id |-> r.stream_id]

MakeEvent(r, name) ==
  [name |-> name, start_ns |-> r.start_ns, end_ns |-> r.end_ns,
   stream_id |-> r.stream_id, device_id |-> r.device_id]

\* ------------------------------------------------------------- correlations_
\* correlations_[id] = anno, with id converted to the uint32_t key
StoreFirstWins(table, id, anno) ==
  LET key == ToUInt32(id)
  IN  IF key \in DOMAIN table THEN table
      ELSE [k \in DOMAIN table \cup {key} |->
              IF k = key THEN anno ELSE table[k]]

Store(table, id, anno) ==
  LET key == ToUInt32(id)
  IN  [k \in DOMAIN table \cup {key} |-> IF k = key THEN anno ELSE table[k]]

\* correlations_.find(r.correlation_id) != correlations_.end()
Found(table, r) == r.correlation_id \in DOMAIN table

\* ------------------------------------------------------------- GenProfile
\* event_times[name].push_back(d)
PushTime(event_times, name, d) ==
  [n \in DOMAIN event_times \cup {name} |->
     IF n = name
       THEN Append(IF n \in DOMAIN event_times THEN event_times[n] ELSE <<>>, d)
       ELSE event_times[n]]

\* the body of the loop over kernel_records_, for one record
NextProfileKeepUnresolved(acc, table, r) ==
  IF ~Found(table, r)
    THEN [acc EXCEPT !.unresolved = @ + 1,
                     !.events = Append(@, MakeEvent(r, ""))]
    ELSE LET event == MakeEvent(r, table[r.correlation_id])
         IN  [acc EXCEPT
                !.events = Append(@, event),
                !.event_times =
                   PushTime(@, event.name, ToUInt64(r.end_ns - r.start_ns))]

NextProfile(acc, table, r) ==
  IF ~Found(table, r)
    THEN [acc EXCEPT !.unresolved = @ + 1]
    ELSE LET event == MakeEvent(r, table[r.correlation_id])
         IN  [acc EXCEPT
                !.events = Append(@, event),
                !.event_times =
                   PushTime(@, event.name, ToUInt64(r.end_ns - r.start_ns))]

\* a loop over kernel_records_ from its last record to its first
RECURSIVE ProfileLoopBackward(_, _, _)
ProfileLoopBackward(acc, table, records) ==
  IF records = <<>> THEN acc
  ELSE ProfileLoopBackward(NextProfile(acc, table, records[Len(records)]), table,
                           SubSeq(records, 1, Len(records) - 1))

\* for (const KernelRecord &r : kernel_records_)
RECURSIVE ProfileLoop(_, _, _)
ProfileLoop(acc, table, records) ==
  IF records = <<>> THEN acc
  ELSE ProfileLoop(NextProfile(acc, table, Head(records)), table, Tail(records))

\* std::accumulate(first, last, init) with an int init: init = init + *first
RECURSIVE Accumulate(_, _)
Accumulate(times, init) ==
  IF times = <<>> THEN init
  ELSE Accumulate(Tail(times), ToInt(ToUInt64(init) + Head(times)))

\* the line GenProfile prints for one name: the total and the number of kernels
Summary(event_times) ==
  [n \in DOMAIN event_times |->
     [total |-> Accumulate(event_times[n], 0), count |-> Len(event_times[n])]]

\* the report GenProfile returns and the summary it prints
ProfileOfSwapped(start, end, table, records) ==
  LET acc == ProfileLoop([events |-> <<>>, event_times |-> <<>>, unresolved |-> 0],
                         table, records)
  IN  [start_ns |-> end, end_ns |-> start, events |-> acc.events,
       summary |-> Summary(acc.event_times), unresolved |-> acc.unresolved]

ProfileOf(start, end, table, records) ==
  LET acc == ProfileLoop([events |-> <<>>, event_times |-> <<>>, unresolved |-> 0],
                         table, records)
  IN  [start_ns |-> start, end_ns |-> end, events |-> acc.events,
       summary |-> Summary(acc.event_times), unresolved |-> acc.unresolved]

\* ------------------------------------------------------------- construction
EmptyTable == [k \in {} |-> ""]

\* a call: its name, its arguments (for Enable and Disable, the statuses the
\* source answered), what it found, what it returned and the calls it made on
\* the source
Call(op, args, pre, result) ==
  [op |-> op, args |-> args, pre |-> pre, result |-> result, source_calls |-> {}]

SourceCall(op, args, pre, result, source_calls) ==
  [op |-> op, args |-> args, pre |-> pre, result |-> result,
   source_calls |-> source_calls]

\* the source before any call was made on it
CuptiInit ==
  [activity |-> {}, callbacks |-> FALSE, subscribed |-> FALSE,
   launch_cb |-> FALSE, clock |-> 0]

\* DeviceTracerImpl() : enabled_(false) {}  -- the other members are not set
\* a thread outside GetDeviceTracer that holds no handle yet
GetterInit == [t \in Threads |-> [pc |-> "idle", via |-> "none", ret |-> <<>>]]

Init ==
  /\ enabled_ = FALSE
  /\ start_ns_ \in Indeterminate
  /\ end_ns_ \in Indeterminate
  /\ kernel_records_ = <<>>
  /\ correlations_ = EmptyTable
  /\ subscriber_ = "indeterminate"
  /\ cur_annotation = [t \in Threads |-> NullAnno]
  /\ cupti = CuptiInit
  /\ pending = <<>>
  /\ inflight = <<>>
  /\ disable_pc = "idle"
  /\ exited = FALSE
  /\ call = Call("CreateTracer", <<>>, "none", "void")
  /\ hist = [enable_ts |-> <<>>, disable_ts |-> <<>>, subscribe |-> "none",
             last |-> "none", owed |-> 0]
  /\ tracer = 1
  /\ tracer_once_flag = "done"
  /\ getter = GetterInit
  /\ trace_mu_ = "free"

\* ------------------------------------------------------------- the tables
PreText(id) ==
  IF ToUInt32(id) \in DOMAIN correlations_
    THEN correlations_[ToUInt32(id)] ELSE "absent"

AddAnnotation(id, anno) ==
  /\ ~exited
  /\ trace_mu_ = "free"
  /\ correlations_' = Store(correlations_, id, anno)
  /\ call' = Call("AddAnnotation", <<id, anno>>, PreText(id), "void")
  /\ UNCHANGED <<enabled_, start_ns_, end_ns_, kernel_records_, subscriber_,
                 cur_annotation, onceVars, trace_mu_, cupti, pending, inflight, disable_pc, exited,
                 hist>>

\* an AddKernelRecords that keeps the record only while the tracer is enabled
AddKernelRecordsIfEnabled(start, end, device_id, stream_id, correlation_id) ==
  /\ ~exited
  /\ trace_mu_ = "free"
  /\ kernel_records_' =
       IF enabled_
         THEN PushRecord(kernel_records_, start, end, device_id, stream_id,
                         correlation_id)
         ELSE kernel_records_
  /\ call' = Call("AddKernelRecords",
                  <<start, end, device_id, stream_id, correlation_id>>,
                  "none", "void")
  /\ UNCHANGED <<enabled_, start_ns_, end_ns_, correlations_, subscriber_,
                 cur_annotation, onceVars, trace_mu_, cupti, pending, inflight, disable_pc, exited,
                 hist>>

AddKernelRecords(start, end, device_id, stream_id, correlation_id) ==
  /\ ~exited
  /\ trace_mu_ = "free"
  /\ kernel_records_' =
       PushRecord(kernel_records_, start, end, device_id, stream_id, correlation_id)
  /\ call' = Call("AddKernelRecords",
                  <<start, end, device_id, stream_id, correlation_id>>,
                  "none", "void")
  /\ UNCHANGED <<enabled_, start_ns_, end_ns_, correlations_, subscriber_,
                 cur_annotation, onceVars, trace_mu_, cupti, pending, inflight, disable_pc, exited,
                 hist>>

IsEnabled ==
  /\ ~exited
  /\ trace_mu_ = "free"
  /\ call' = Call("IsEnabled", <<>>, "none", enabled_)
  /\ UNCHANGED <<enabled_, start_ns_, end_ns_, kernel_records_, correlations_,
                 subscriber_, cur_annotation, onceVars, trace_mu_, cupti, pending, inflight,
                 disable_pc, exited, hist>>

\* a GenProfile that empties the log it has reported
GenProfileConsumes ==
  /\ ~exited
  /\ trace_mu_ = "free"
  /\ call' = Call("GenProfile", <<>>, "none",
                  ProfileOf(start_ns_, end_ns_, correlations_, kernel_records_))
  /\ kernel_records_' = <<>>
  /\ UNCHANGED <<enabled_, start_ns_, end_ns_, correlations_,
                 subscriber_, cur_annotation, onceVars, trace_mu_, cupti, pending, inflight,
                 disable_pc, exited, hist>>

GenProfile ==
  /\ ~exited
  /\ trace_mu_ = "free"
  /\ call' = Call("GenProfile", <<>>, "none",
                  ProfileOf(start_ns_, end_ns_, correlations_, kernel_records_))
  /\ UNCHANGED <<enabled_, start_ns_, end_ns_, kernel_records_, correlations_,
                 subscriber_, cur_annotation, onceVars, trace_mu_, cupti, pending, inflight,
                 disable_pc, exited, hist>>

\* ------------------------------------------------------------- annotations
SetCurAnnotation(t, anno) ==
  /\ ~exited
  /\ cur_annotation' = [cur_annotation EXCEPT ![t] = anno]
  /\ call' = Call("SetCurAnnotation", <<t, anno>>, "none", "void")
  /\ UNCHANGED <<enabled_, start_ns_, end_ns_, kernel_records_, correlations_,
                 subscriber_, cupti, pending, inflight, disable_pc, exited,
                 hist, onceVars, trace_mu_>>

ClearCurAnnotation(t) ==
  /\ ~exited
  /\ cur_annotation' = [cur_annotation EXCEPT ![t] = NullAnno]
  /\ call' = Call("ClearCurAnnotation", <<t>>, "none", "void")
  /\ UNCHANGED <<enabled_, start_ns_, end_ns_, kernel_records_, correlations_,
                 subscriber_, cupti, pending, inflight, disable_pc, exited,
                 hist, onceVars, trace_mu_>>

\* an annotation kept in one variable of the process: the text set last by
\* whichever thread has one
AnnotationOfProcess(t) ==
  LET set == {u \in Threads : cur_annotation[u] # NullAnno}
  IN  IF set = {} THEN SymbolName
      ELSE IF set = {t} THEN cur_annotation[t]
      ELSE cur_annotation[CHOOSE u \in set : u # t]

\* cur_annotation ? cur_annotation : cbInfo->symbolName, on the launching thread
AnnotationOf(t) ==
  IF cur_annotation[t] # NullAnno THEN cur_annotation[t] ELSE SymbolName

\* the callback of cuLaunchKernel, run by the source on the launching thread t
ApiCallback(t, site, correlationId) ==
  /\ ~exited
  /\ cupti.subscribed /\ cupti.launch_cb
  /\ site = "ENTER" => trace_mu_ = "free"
  /\ correlations_' = IF site = "ENTER"
                        THEN Store(correlations_, correlationId, AnnotationOf(t))
                        ELSE correlations_
  /\ call' = Call("ApiCallback", <<t, site, correlationId>>,
                  PreText(correlationId), "void")
  /\ UNCHANGED <<enabled_, start_ns_, end_ns_, kernel_records_, subscriber_,
                 cur_annotation, onceVars, trace_mu_, cupti, pending, inflight, disable_pc,
                 exited, hist>>

\* ------------------------------------------------------------- the source
\* the source's clock advances
Tick ==
  /\ ~exited
  /\ cupti.clock < MaxClock
  /\ cupti' = [cupti EXCEPT !.clock = @ + 1]
  /\ call' = Call("source", <<>>, "none", "void")
  /\ UNCHANGED <<enabled_, start_ns_, end_ns_, kernel_records_, correlations_,
                 subscriber_, cur_annotation, onceVars, trace_mu_, pending, inflight, disable_pc,
                 exited, hist>>

ActivityKinds == {"KERNEL", "MEMCPY"}

\* the source buffers the record of an activity of a kind that is enabled
ActivityRecord(kind, correlationId, start, end) ==
  /\ ~exited
  /\ kind \in cupti.activity
  /\ pending' = Append(pending,
                       [kind |-> kind, start |-> start, end |-> end,
                        deviceId |-> 0, streamId |-> 1,
                        correlationId |-> correlationId])
  /\ call' = Call("source", <<>>, "none", "void")
  /\ UNCHANGED <<enabled_, start_ns_, end_ns_, kernel_records_, correlations_,
                 subscriber_, cur_annotation, onceVars, trace_mu_, cupti, inflight, disable_pc,
                 exited, hist>>

\* the source hands its buffer to bufferCompleted of its own accord
BufferDelivered ==
  /\ ~exited
  /\ pending # <<>>
  /\ inflight = <<>>
  /\ inflight' = pending
  /\ pending' = <<>>
  /\ call' = Call("bufferCompleted", <<>>, "none", "void")
  /\ UNCHANGED <<enabled_, start_ns_, end_ns_, kernel_records_, correlations_,
                 subscriber_, cur_annotation, onceVars, trace_mu_, cupti, disable_pc, exited, hist>>

\* a loop turn that hands a record of any kind to AddKernelRecords
DrainTurnAnyKind(log, record) ==
  PushRecord(log, record.start, record.end, record.deviceId, record.streamId,
             record.correlationId)

\* what one turn of the loop of bufferCompleted does to the log: the switch on
\* record->kind
DrainTurn(log, record) ==
  IF record.kind = "KERNEL"
    THEN PushRecord(log, record.start, record.end, record.deviceId,
                    record.streamId, record.correlationId)
    ELSE log

\* one turn of the loop of bufferCompleted: the next record of the buffer; the
\* flush of a Disable returns after the last record it delivered
BufferCompletedNext ==
  /\ ~exited
  /\ inflight # <<>>
  /\ Head(inflight).kind = "KERNEL" => trace_mu_ = "free"
  /\ inflight' = Tail(inflight)
  /\ disable_pc' = IF disable_pc = "flushing" /\ Tail(inflight) = <<>>
                     THEN "flushed" ELSE disable_pc
  /\ LET record == Head(inflight)
     IN  IF record.kind = "KERNEL"
           THEN /\ kernel_records_' = DrainTurn(kernel_records_, record)
                /\ call' = Call("AddKernelRecords",
                                <<record.start, record.end, record.deviceId,
                                  record.streamId, record.correlationId>>,
                                "none", "void")
           ELSE /\ kernel_records_' = DrainTurn(kernel_records_, record)
                /\ call' = Call("bufferCompleted", <<record.kind>>, "none", "void")
  /\ UNCHANGED <<enabled_, start_ns_, end_ns_, correlations_, subscriber_,
                 cur_annotation, onceVars, trace_mu_, cupti, pending, exited, hist>>

\* ------------------------------------------------------------- Enable
Statuses == {"SUCCESS", "MAX_LIMIT_REACHED", "ERROR"}

\* the record kinds EnableActivity enables, in the order of its calls
EnableKinds == <<"MEMCPY", "KERNEL", "DEVICE", "MEMSET", "OVERHEAD">>

\* the calls of Enable on the source, in order: 1..5 cuptiActivityEnable,
\* 6 cuptiActivityRegisterCallbacks, 7 cuptiSubscribe, 8 cuptiEnableCallback,
\* 9 cuptiGetTimestamp.  All but cuptiSubscribe are wrapped in CUPTI_CALL.
EnableCallNames ==
  [i \in 1..Len(EnableKinds) |-> "cuptiActivityEnable"] \o
  <<"cuptiActivityRegisterCallbacks", "cuptiSubscribe", "cuptiEnableCallback",
    "cuptiGetTimestamp">>
SubscribeCall == Len(EnableKinds) + 2
EnableCalls == 1..(Len(EnableKinds) + 4)
\* the failures tried: the second cuptiActivityEnable, cuptiActivityRegisterCallbacks,
\* cuptiEnableCallback and cuptiGetTimestamp
EnableFailPoints ==
  {2, SubscribeCall - 1, SubscribeCall + 1, SubscribeCall + 2}

\* fail is the first CUPTI_CALL of the run that does not return success (0: none):
\* call i is made when no earlier one failed, and returns when it did not fail
Made(fail, i) == fail = 0 \/ i <= fail
Passed(fail, i) == fail = 0 \/ i < fail

\* whether Enable stops on the status of cuptiSubscribe: it reports the limit
\* and any other failure on stderr and goes on
AbortsOnFailedSubscribe(sub) == sub # "SUCCESS"

AbortsOnSubscribe(sub) == FALSE

\* the first call at which Enable stops, the source answering sub to
\* cuptiSubscribe and failing the CUPTI_CALL fail
FirstFailure(sub, fail) ==
  IF Made(fail, SubscribeCall) /\ AbortsOnSubscribe(sub) THEN SubscribeCall ELSE fail

EnableBody(sub, fail) ==
  LET stop == FirstFailure(sub, fail)
  IN
  /\ cupti' =
       [cupti EXCEPT
          !.activity =
             @ \cup {EnableKinds[i] : i \in {j \in 1..Len(EnableKinds) : Passed(stop, j)}},
          !.callbacks = @ \/ Passed(stop, SubscribeCall - 1),
          !.subscribed = @ \/ (Made(stop, SubscribeCall) /\ sub = "SUCCESS"),
          !.launch_cb =
             @ \/ (Passed(stop, SubscribeCall + 1)
                     /\ (cupti.subscribed \/ sub = "SUCCESS"))]
  /\ subscriber_' =
       IF Made(stop, SubscribeCall) /\ sub = "SUCCESS" THEN "handle" ELSE subscriber_
  /\ start_ns_' = IF stop = 0 THEN cupti.clock ELSE start_ns_
  /\ enabled_' = (stop = 0)
  /\ exited' = (stop # 0)
  /\ hist' = IF stop = 0
               THEN [hist EXCEPT !.enable_ts = <<cupti.clock>>, !.subscribe = sub,
                                 !.last = "Enable"]
               ELSE hist
  /\ call' = SourceCall("Enable", <<sub, fail>>, enabled_,
                        IF stop = 0 THEN "void" ELSE "exit",
                        {EnableCallNames[i] : i \in {j \in EnableCalls : Made(stop, j)}})

EnableNoGuard(sub, fail) ==
  /\ ~exited
  /\ EnableBody(sub, fail)
  /\ UNCHANGED <<end_ns_, kernel_records_, correlations_, cur_annotation, onceVars, trace_mu_,
                 pending, inflight, disable_pc>>

Enable(sub, fail) ==
  /\ ~exited
  /\ trace_mu_ = "free"
  /\ IF enabled_
       THEN /\ call' = Call("Enable", <<>>, enabled_, "already enabled")
            /\ UNCHANGED <<enabled_, start_ns_, subscriber_, cupti, exited, hist>>
       ELSE EnableBody(sub, fail)
  /\ UNCHANGED <<end_ns_, kernel_records_, correlations_, cur_annotation, onceVars, trace_mu_,
                 pending, inflight, disable_pc>>

\* ------------------------------------------------------------- Disable
\* the record kinds DisableActivity disables, in the order of its calls
DisableKinds ==
  <<"MEMCPY", "KERNEL", "DEVICE", "CONTEXT", "DRIVER", "RUNTIME", "MEMSET",
    "NAME", "MARKER", "OVERHEAD">>

\* the calls of the locked part of Disable, in order: 1..10 cuptiActivityDisable,
\* 11 cuptiUnsubscribe (its status is dropped), 12 cuptiGetTimestamp,
\* 13 cuptiFinalize (under PADDLE_ENFORCE, which throws).
DisableCallNames ==
  [i \in 1..Len(DisableKinds) |-> "cuptiActivityDisable"] \o
  <<"cuptiUnsubscribe", "cuptiGetTimestamp", "cuptiFinalize">>
UnsubscribeCall == Len(DisableKinds) + 1
\* the failures tried: the second cuptiActivityDisable and cuptiGetTimestamp
DisableFailPoints == {2, UnsubscribeCall + 1}

\* the records of a buffer that bufferCompleted hands to AddKernelRecords
KernelOnly(buffer) == SelectSeq(buffer, LAMBDA record : record.kind = "KERNEL")

\* the length the log has once every kernel record that the source holds in a
\* buffer is delivered, and 0 if it holds none
Owed ==
  IF KernelOnly(pending) = <<>> THEN 0
  ELSE Len(kernel_records_) + Len(KernelOnly(inflight \o pending))

\* a Disable that takes the mutex before the flush and holds it through it
DisableLockThenFlush(flushed) ==
  /\ ~exited
  /\ disable_pc = "idle"
  /\ trace_mu_ = "free"
  /\ trace_mu_' = "Disable"
  /\ inflight' = IF flushed THEN inflight \o pending ELSE inflight
  /\ pending' = IF flushed THEN <<>> ELSE pending
  /\ disable_pc' = IF flushed /\ inflight \o pending # <<>>
                     THEN "flushing" ELSE "flushed"
  /\ hist' = [hist EXCEPT !.owed = Owed]
  /\ call' = SourceCall("Disable", <<flushed>>, enabled_, "flushed",
                        {"cuptiActivityFlushAll"})
  /\ UNCHANGED <<enabled_, start_ns_, end_ns_, kernel_records_, correlations_,
                 subscriber_, cur_annotation, onceVars, cupti, exited>>

\* Disable, before the mutex: cuptiActivityFlushAll(FLUSH_FORCED), whose status
\* is dropped; a flush that succeeds hands every buffered record to
\* bufferCompleted on the thread of the flush, which returns when they are
\* drained (position "flushing" until then, "flushed" after). hist.owed is Owed
\* at this call.
DisableFlush(flushed) ==
  /\ ~exited
  /\ disable_pc = "idle"
  /\ inflight' = IF flushed THEN inflight \o pending ELSE inflight
  /\ pending' = IF flushed THEN <<>> ELSE pending
  /\ disable_pc' = IF flushed /\ inflight \o pending # <<>>
                     THEN "flushing" ELSE "flushed"
  /\ hist' = [hist EXCEPT !.owed = Owed]
  /\ call' = SourceCall("Disable", <<flushed>>, enabled_, "flushed",
                        {"cuptiActivityFlushAll"})
  /\ UNCHANGED <<enabled_, start_ns_, end_ns_, kernel_records_, correlations_,
                 subscriber_, cur_annotation, onceVars, trace_mu_, cupti, exited>>

\* Disable, under the mutex, once the flush has returned
DisableBody(fail, fin) ==
  /\ cupti' =
       [cupti EXCEPT
          !.activity =
             @ \ {DisableKinds[i] : i \in {j \in 1..Len(DisableKinds) : Passed(fail, j)}},
          !.subscribed = @ /\ ~Made(fail, UnsubscribeCall),
          !.launch_cb = @ /\ ~Made(fail, UnsubscribeCall)]
  /\ end_ns_' = IF Passed(fail, UnsubscribeCall + 1) THEN cupti.clock ELSE end_ns_
  /\ enabled_' = IF fail = 0 /\ fin = "SUCCESS" THEN FALSE ELSE enabled_
  /\ exited' = (fail # 0)
  /\ hist' = IF Passed(fail, UnsubscribeCall + 1)
               THEN [hist EXCEPT !.disable_ts = <<cupti.clock>>, !.last = "Disable",
                                 !.owed = 0]
               ELSE [hist EXCEPT !.owed = 0]
  /\ call' = SourceCall("Disable", <<fail, fin>>, enabled_,
                        IF fail # 0 THEN "exit"
                        ELSE IF fin # "SUCCESS" THEN "throw" ELSE "void",
                        {DisableCallNames[i] :
                           i \in {j \in 1..Len(DisableCallNames) : Made(fail, j)}})

DisableLocked(fail, fin) ==
  /\ ~exited
  /\ disable_pc = "flushed"
  /\ trace_mu_ = "free"
  /\ disable_pc' = "idle"
  /\ DisableBody(fail, fin)
  /\ UNCHANGED <<start_ns_, kernel_records_, correlations_, subscriber_,
                 cur_annotation, onceVars, trace_mu_, pending, inflight>>

\* ------------------------------------------------------------- Spec
\* no thread sets an annotation here, so the launches of one thread stand for
\* all; they carry one correlation id, which the source's records have or not
LaunchThreads == {"t1"}
LaunchIds == {0}

\* The tracer driven through the source: launches, completed buffers, the
\* clock, and the calls of the life cycle.
Next ==
  \/ \E t \in LaunchThreads, site \in {"ENTER", "EXIT"}, id \in LaunchIds :
       ApiCallback(t, site, id)
  \/ Tick
  \/ \E kind \in ActivityKinds, id \in CorrelationIds, span \in SourceSpans :
       /\ Len(kernel_records_) + Len(pending) + Len(inflight) < MaxSource
       /\ kind = "MEMCPY" => id = 0
       /\ ActivityRecord(kind, id, span[1], span[2])
  \/ BufferDelivered
  \/ BufferCompletedNext
  \/ \E sub \in Statuses, fail \in {0} \cup EnableFailPoints :
       /\ (fail # 0 /\ fail < SubscribeCall) => sub = "SUCCESS"
       /\ Enable(sub, fail)
  \/ \E flushed \in BOOLEAN : DisableFlush(flushed)
  \/ \E fail \in {0} \cup DisableFailPoints, fin \in {"SUCCESS", "ERROR"} :
       /\ fail # 0 => fin = "SUCCESS"
       /\ DisableLocked(fail, fin)
  \/ IsEnabled
  \/ GenProfile

Spec == Init /\ [][Next]_vars

\* ------------------------------------------------------------- SpecApi
\* The tracer driven by direct calls of its public methods.
NextApi ==
  \/ \E id \in AnnotationIds, anno \in Names : AddAnnotation(id, anno)
  \/ \E start \in TimeValues, end \in TimeValues, device_id \in DeviceIds,
        stream_id \in StreamIds, correlation_id \in CorrelationIds :
       /\ Len(kernel_records_) < MaxLog
       /\ AddKernelRecords(start, end, device_id, stream_id, correlation_id)
  \/ GenProfile

SpecApi == Init /\ [][NextApi]_vars

\* ------------------------------------------------------------- claims on the tables
\* the positions of the log whose correlation id has an entry in the table
ResolvableIdx ==
  {i \in 1..Len(kernel_records_) :
     kernel_records_[i].correlation_id \in DOMAIN correlations_}

UnresolvableIdx == (1..Len(kernel_records_)) \ ResolvableIdx

\* how many resolvable records the log holds up to position i
Rank(i) == Cardinality({j \in ResolvableIdx : j <= i})

Returned == call.op = "GenProfile"
Events == call.result.events

\* C1: GenProfile emits, for every record of the log whose correlation id has
\* an entry in the table, exactly one event, named by that entry and carrying
\* the record's start_ns, end_ns, device_id and stream_id; there are as many
\* events as resolvable records.
C1_ResolvableJoin ==
  Returned =>
    /\ Len(Events) = Cardinality(ResolvableIdx)
    /\ \A i \in ResolvableIdx :
         LET r == kernel_records_[i]
             e == Events[Rank(i)]
         IN  /\ e.name = correlations_[r.correlation_id]
             /\ e.start_ns = r.start_ns
             /\ e.end_ns = r.end_ns
             /\ e.device_id = r.device_id
             /\ e.stream_id = r.stream_id

\* two resolvable records with different names have been reported
C1_Witness ==
  /\ Returned
  /\ Len(Events) = 2
  /\ Events[1].name # Events[2].name

\* C2: a record whose correlation id has no entry in the table when GenProfile
\* runs is not in the report: GenProfile returns, counts it as unresolved, and
\* every event it returns is named by an entry of the table; with no resolvable
\* record the report has no event.
C2_UnresolvableDrop ==
  Returned =>
    /\ call.result.unresolved = Cardinality(UnresolvableIdx)
    /\ Len(Events) + Cardinality(UnresolvableIdx) = Len(kernel_records_)
    /\ \A k \in 1..Len(Events) :
         \E key \in DOMAIN correlations_ : Events[k].name = correlations_[key]
    /\ (ResolvableIdx = {} => Events = <<>>)

\* a report of a log that holds an unresolvable record before a resolvable one
C2_Witness ==
  /\ Returned
  /\ Len(kernel_records_) = 2
  /\ 1 \in UnresolvableIdx
  /\ 2 \in ResolvableIdx
  /\ Len(Events) = 1

\* C7 as stated: once a text is stored for a correlation id, a later
\* AddAnnotation for the same id does not change it.
C7_WriteOnce ==
  [][(call'.op = "AddAnnotation" /\ call'.pre # "absent")
       => correlations_'[ToUInt32(call'.args[1])] = call'.pre]_vars

\* C7 as the code has it: AddAnnotation stores its text under the id's key
\* whether or not the key had one, and changes no other key; GenProfile names
\* the id's events with the text stored last.
C7_LastWriteWins ==
  /\ [][call'.op = "AddAnnotation" =>
          LET key == ToUInt32(call'.args[1])
          IN  /\ DOMAIN correlations_' = DOMAIN correlations_ \cup {key}
              /\ correlations_'[key] = call'.args[2]
              /\ \A k \in DOMAIN correlations_ \ {key} :
                   correlations_'[k] = correlations_[k]]_vars
  /\ [](Returned =>
          \A i \in ResolvableIdx :
            Events[Rank(i)].name =
              correlations_[kernel_records_[i].correlation_id])

\* an AddAnnotation has replaced the text of a key by another text
C7_Witness ==
  /\ call.op = "AddAnnotation"
  /\ call.pre \in Names
  /\ call.pre # call.args[2]
  /\ correlations_[ToUInt32(call.args[1])] = call.args[2]

\* the exact sum of end_ns - start_ns over the events named n
RECURSIVE DurationSum(_, _)
DurationSum(events, n) ==
  IF events = <<>> THEN 0
  ELSE (IF Head(events).name = n
          THEN Head(events).end_ns - Head(events).start_ns ELSE 0)
       + DurationSum(Tail(events), n)

EventsNamed(n) == {k \in 1..Len(Events) : Events[k].name = n}

\* C8: for every resolved name the summary's count is the number of events
\* with that name and its total is the exact sum of end_ns - start_ns over
\* those events.  Stated for the logs whose records all have
\* end_ns >= start_ns, where the sum is not in question.
C8_AggregateExact ==
  (Returned /\ \A i \in 1..Len(kernel_records_) :
                 kernel_records_[i].end_ns >= kernel_records_[i].start_ns) =>
    /\ DOMAIN call.result.summary = {Events[k].name : k \in 1..Len(Events)}
    /\ \A n \in DOMAIN call.result.summary :
         /\ call.result.summary[n].count = Cardinality(EventsNamed(n))
         /\ call.result.summary[n].total = DurationSum(Events, n)

\* C9 as stated: every record of the log has end_ns >= start_ns and every
\* event has end_ns - start_ns >= 0, whatever AddKernelRecords was called with.
C9_NonNegative ==
  /\ \A i \in 1..Len(kernel_records_) :
       kernel_records_[i].end_ns >= kernel_records_[i].start_ns
  /\ Returned => \A k \in 1..Len(Events) : Events[k].end_ns - Events[k].start_ns >= 0

\* C9 as the code has it: AddKernelRecords appends the start and end it was
\* called with, unchanged and unchecked, and alters no earlier record, and
\* GenProfile copies them unchanged; so a record, and its event, has
\* end_ns >= start_ns exactly when its call had end >= start.
C9_StoredAsGiven ==
  /\ [][call'.op = "AddKernelRecords" =>
          /\ Len(kernel_records_') = Len(kernel_records_) + 1
          /\ \A i \in 1..Len(kernel_records_) :
               kernel_records_'[i] = kernel_records_[i]
          /\ LET r == kernel_records_'[Len(kernel_records_')]
             IN  /\ r.start_ns = call'.args[1]
                 /\ r.end_ns = call'.args[2]
                 /\ (r.end_ns >= r.start_ns <=> call'.args[2] >= call'.args[1])]_vars
  /\ [](Returned =>
          \A i \in ResolvableIdx :
            LET r == kernel_records_[i]
                e == Events[Rank(i)]
            IN  (e.end_ns - e.start_ns >= 0) <=> (r.end_ns >= r.start_ns))

\* a record appended with end < start has been reported as an event
C9_Witness ==
  /\ Returned
  /\ \E k \in 1..Len(Events) : Events[k].end_ns < Events[k].start_ns

\* ------------------------------------------------------------- claims on the life cycle
SetupCalls == {EnableCallNames[i] : i \in EnableCalls}

\* C3: an Enable called while the tracer is enabled makes no call on the
\* source and leaves enabled_ true and start_ns_, the tables and the source
\* as they were; the setup calls are only ever made by an Enable that found
\* the tracer disabled, so they are made once until a Disable.
C3_IdempotentEnable ==
  /\ [][(call'.op = "Enable" /\ enabled_) =>
          /\ enabled_'
          /\ call'.source_calls = {}
          /\ UNCHANGED <<start_ns_, end_ns_, kernel_records_, correlations_,
                         subscriber_, cupti, pending, inflight, hist>>]_vars
  /\ [][(call'.op = "Enable" /\ call'.source_calls # {}) =>
          /\ ~enabled_
          /\ (enabled_' => call'.source_calls = SetupCalls)]_vars

\* an Enable has found the tracer enabled at a time other than its start_ns_
C3_Witness ==
  /\ call.op = "Enable"
  /\ call.pre = TRUE
  /\ enabled_
  /\ hist.enable_ts # <<cupti.clock>>

\* C4: a Disable called while the tracer is disabled makes no call on the
\* source and leaves enabled_, start_ns_, end_ns_ and the tables as they were.
C4_DisableNoOp ==
  [][(call'.op = "Disable" /\ ~enabled_) =>
       /\ call'.source_calls = {}
       /\ UNCHANGED <<enabled_, start_ns_, end_ns_, kernel_records_,
                      correlations_>>]_vars

\* C5: an Enable one of whose setup calls answers a status that is neither
\* success nor, for cuptiSubscribe, the subscriber limit, is aborted: the
\* tracer is not enabled by it.
C5_SetupFaultAborts ==
  (/\ call.op = "Enable"
   /\ call.pre = FALSE
   /\ (call.args[2] # 0 \/ call.args[1] \notin {"SUCCESS", "MAX_LIMIT_REACHED"}))
    => (~enabled_ /\ call.result = "exit")

\* C6: an Enable whose cuptiSubscribe answers that the subscriber limit is
\* reached, and whose other setup calls succeed, does not abort: it reads
\* start_ns_, enables the record kinds, registers the buffer callbacks and
\* ends enabled; and bufferCompleted appends every kernel record it is
\* handed, subscribed or not.
C6_SubscriberLimit ==
  /\ []((/\ call.op = "Enable"
         /\ call.pre = FALSE
         /\ call.args = <<"MAX_LIMIT_REACHED", 0>>)
          => /\ enabled_
             /\ ~exited
             /\ call.result = "void"
             /\ start_ns_ = cupti.clock
             /\ "KERNEL" \in cupti.activity
             /\ cupti.callbacks)
  /\ [][(/\ inflight # <<>>
         /\ inflight' = Tail(inflight)
         /\ Head(inflight).kind = "KERNEL") =>
          LET record == Head(inflight)
          IN  kernel_records_' =
                Append(kernel_records_,
                       KernelRecord(record.start, record.end, record.deviceId,
                                    record.streamId, record.correlationId))]_vars

\* a kernel record has been appended in a session whose cuptiSubscribe
\* answered that the limit was reached
C6_Witness ==
  /\ hist.subscribe = "MAX_LIMIT_REACHED"
  /\ hist.last = "Enable"
  /\ enabled_
  /\ ~cupti.subscribed
  /\ call.op = "AddKernelRecords"
  /\ kernel_records_ # <<>>

\* C10: a report returned after an Enable and then a Disable carries as
\* start_ns the timestamp the source gave that Enable and as end_ns the one
\* it gave that Disable, and start_ns <= end_ns.
C10_SessionTimestamps ==
  (Returned /\ hist.last = "Disable" /\ hist.enable_ts # <<>>) =>
    /\ call.result.start_ns = hist.enable_ts[1]
    /\ call.result.end_ns = hist.disable_ts[1]
    /\ call.result.start_ns <= call.result.end_ns

\* a report of a session enabled at 0 and disabled later
C10_Witness ==
  /\ Returned
  /\ hist.last = "Disable"
  /\ hist.enable_ts = <<0>>
  /\ hist.disable_ts # <<>>
  /\ call.result.start_ns < call.result.end_ns

\* ------------------------------------------------------------- DeviceTracerDummy
\* The build without PADDLE_WITH_CUPTI: CreateTracer makes a DeviceTracerDummy,
\* which has no member; the variables of DeviceTracerImpl stay as placed here.
InitDummy ==
  /\ enabled_ = FALSE
  /\ start_ns_ = 0
  /\ end_ns_ = 0
  /\ kernel_records_ = <<>>
  /\ correlations_ = EmptyTable
  /\ subscriber_ = "indeterminate"
  /\ cur_annotation = [t \in Threads |-> NullAnno]
  /\ cupti = CuptiInit
  /\ pending = <<>>
  /\ inflight = <<>>
  /\ disable_pc = "idle"
  /\ exited = FALSE
  /\ call = Call("CreateTracer", <<>>, "none", "void")
  /\ hist = [enable_ts |-> <<>>, disable_ts |-> <<>>, subscribe |-> "none",
             last |-> "none", owed |-> 0]
  /\ tracer = 1
  /\ tracer_once_flag = "done"
  /\ getter = GetterInit
  /\ trace_mu_ = "free"

\* proto::Profile()
EmptyProfile ==
  [start_ns |-> 0, end_ns |-> 0, events |-> <<>>,
   summary |-> [n \in {} |-> [total |-> 0, count |-> 0]], unresolved |-> 0]

\* a method of DeviceTracerDummy with an empty body; hist keeps which of Enable
\* and Disable was called last
DummyCall(op, args, last) ==
  /\ call' = Call(op, args, "none", "void")
  /\ hist' = [hist EXCEPT !.last = last]
  /\ UNCHANGED <<enabled_, start_ns_, end_ns_, kernel_records_, correlations_,
                 subscriber_, cur_annotation, onceVars, trace_mu_, cupti, pending, inflight,
                 disable_pc, exited>>

DummyAddAnnotation(id, anno) == DummyCall("AddAnnotation", <<id, anno>>, hist.last)

DummyAddKernelRecords(start, end, device_id, stream_id, correlation_id) ==
  DummyCall("AddKernelRecords",
            <<start, end, device_id, stream_id, correlation_id>>, hist.last)

DummyEnable == DummyCall("Enable", <<>>, "Enable")

DummyDisable == DummyCall("Disable", <<>>, "Disable")

DummyIsEnabledByLast ==
  /\ call' = Call("IsEnabled", <<>>, "none", hist.last = "Enable")
  /\ UNCHANGED <<enabled_, start_ns_, end_ns_, kernel_records_, correlations_,
                 subscriber_, cur_annotation, onceVars, trace_mu_, cupti, pending, inflight,
                 disable_pc, exited, hist>>

\* bool IsEnabled() { return false; }
DummyIsEnabled ==
  /\ call' = Call("IsEnabled", <<>>, "none", FALSE)
  /\ UNCHANGED <<enabled_, start_ns_, end_ns_, kernel_records_, correlations_,
                 subscriber_, cur_annotation, onceVars, trace_mu_, cupti, pending, inflight,
                 disable_pc, exited, hist>>

\* proto::Profile GenProfile() { return proto::Profile(); }
DummyGenProfile ==
  /\ call' = Call("GenProfile", <<>>, "none", EmptyProfile)
  /\ UNCHANGED <<enabled_, start_ns_, end_ns_, kernel_records_, correlations_,
                 subscriber_, cur_annotation, onceVars, trace_mu_, cupti, pending, inflight,
                 disable_pc, exited, hist>>

NextDummy ==
  \/ \E t \in Threads, anno \in Names : SetCurAnnotation(t, anno)
  \/ \E t \in Threads : ClearCurAnnotation(t)
  \/ \E id \in AnnotationIds, anno \in Names : DummyAddAnnotation(id, anno)
  \/ \E start \in TimeValues, end \in TimeValues, device_id \in DeviceIds,
        stream_id \in StreamIds, correlation_id \in CorrelationIds :
       DummyAddKernelRecords(start, end, device_id, stream_id, correlation_id)
  \/ DummyEnable
  \/ DummyDisable
  \/ DummyIsEnabled
  \/ DummyGenProfile

SpecDummy == InitDummy /\ [][NextDummy]_vars

\* C11: in the build without the source, after any calls of Enable, Disable,
\* AddAnnotation and AddKernelRecords, IsEnabled returns false and GenProfile
\* returns a report with no event; none of the calls leaves anything behind.
C11_DummyInert ==
  /\ call.op = "IsEnabled" => call.result = FALSE
  /\ call.op = "GenProfile" => (call.result.events = <<>> /\ call.result.unresolved = 0)
  /\ ~enabled_
  /\ kernel_records_ = <<>>
  /\ DOMAIN correlations_ = {}

\* IsEnabled has answered after an Enable that no Disable followed
C11_Witness ==
  /\ call.op = "IsEnabled"
  /\ hist.last = "Enable"
  /\ call.result = FALSE

\* ------------------------------------------------------------- GetDeviceTracer
\* The start of the process: tracer is nullptr and the flag is not yet set.
InitOnce ==
  /\ enabled_ = FALSE
  /\ start_ns_ = 0
  /\ end_ns_ = 0
  /\ kernel_records_ = <<>>
  /\ correlations_ = EmptyTable
  /\ subscriber_ = "indeterminate"
  /\ cur_annotation = [t \in Threads |-> NullAnno]
  /\ cupti = CuptiInit
  /\ pending = <<>>
  /\ inflight = <<>>
  /\ disable_pc = "idle"
  /\ exited = FALSE
  /\ call = Call("main", <<>>, "none", "void")
  /\ hist = [enable_ts |-> <<>>, disable_ts |-> <<>>, subscribe |-> "none",
             last |-> "none", owed |-> 0]
  /\ tracer = 0
  /\ tracer_once_flag = "idle"
  /\ getter = GetterInit
  /\ trace_mu_ = "free"

tracerVars ==
  <<enabled_, start_ns_, end_ns_, kernel_records_, correlations_, subscriber_,
    cur_annotation, cupti, pending, inflight, disable_pc, exited, hist,
    trace_mu_>>

\* what operator new can answer
AllocResults == {"ok", "bad_alloc"}

\* thread t calls GetDeviceTracer and arrives at std::call_once
GetDeviceTracer(t) ==
  /\ getter[t].pc = "idle"
  /\ getter' = [getter EXCEPT ![t] = [pc |-> "call_once", via |-> "none",
                                      ret |-> getter[t].ret]]
  /\ call' = Call("GetDeviceTracer", <<t>>, tracer_once_flag, <<>>)
  /\ UNCHANGED <<tracer, tracer_once_flag, tracerVars>>

\* a call_once that lets a second thread run the callable while the first is in it
CallOnceUnguarded(t) ==
  /\ getter[t].pc = "call_once"
  /\ IF tracer_once_flag = "done"
       THEN /\ getter' = [getter EXCEPT ![t].pc = "return", ![t].via = "done"]
            /\ UNCHANGED tracer_once_flag
       ELSE /\ getter' = [getter EXCEPT ![t].pc = "active", ![t].via = "ran"]
            /\ tracer_once_flag' = "active"
  /\ call' = Call("call_once", <<t>>, tracer_once_flag, getter'[t].pc)
  /\ UNCHANGED <<tracer, tracerVars>>

\* std::call_once: a set flag returns at once, an unset flag makes this thread
\* the one that runs the callable, a flag held by another thread makes it wait
CallOnce(t) ==
  /\ getter[t].pc = "call_once"
  /\ IF tracer_once_flag = "done"
       THEN /\ getter' = [getter EXCEPT ![t].pc = "return", ![t].via = "done"]
            /\ UNCHANGED tracer_once_flag
       ELSE IF tracer_once_flag = "idle"
         THEN /\ getter' = [getter EXCEPT ![t].pc = "active", ![t].via = "ran"]
              /\ tracer_once_flag' = "active"
         ELSE /\ getter' = [getter EXCEPT ![t].pc = "waiting", ![t].via = "waited"]
              /\ UNCHANGED tracer_once_flag
  /\ call' = Call("call_once", <<t>>, tracer_once_flag, getter'[t].pc)
  /\ UNCHANGED <<tracer, tracerVars>>

\* a thread waiting in call_once goes on once the flag is set, or takes the
\* place of a thread whose callable threw
CallOnceWake(t) ==
  /\ getter[t].pc = "waiting"
  /\ tracer_once_flag # "active"
  /\ IF tracer_once_flag = "done"
       THEN /\ getter' = [getter EXCEPT ![t].pc = "return"]
            /\ UNCHANGED tracer_once_flag
       ELSE /\ getter' = [getter EXCEPT ![t].pc = "active"]
            /\ tracer_once_flag' = "active"
  /\ call' = Call("call_once", <<t>>, tracer_once_flag, getter'[t].pc)
  /\ UNCHANGED <<tracer, tracerVars>>

\* CreateTracer(&tracer) inside call_once: *t = new DeviceTracerImpl(); each
\* new object is another one, numbered by the order of construction. A new
\* that throws leaves the flag unset and the exception leaves GetDeviceTracer.
CreateTracer(t, alloc) ==
  /\ getter[t].pc = "active"
  /\ IF alloc = "ok"
       THEN /\ tracer' = tracer + 1
            /\ tracer_once_flag' = "done"
            /\ getter' = [getter EXCEPT ![t].pc = "return"]
       ELSE /\ tracer_once_flag' = "idle"
            /\ getter' = [getter EXCEPT ![t].pc = "idle", ![t].via = "threw"]
            /\ UNCHANGED tracer
  /\ call' = Call("CreateTracer", <<t, alloc>>, tracer, tracer')
  /\ UNCHANGED tracerVars

\* return tracer;
ReturnTracer(t) ==
  /\ getter[t].pc = "return"
  /\ getter' = [getter EXCEPT ![t].pc = "idle", ![t].ret = <<tracer>>]
  /\ call' = Call("GetDeviceTracer", <<t>>, tracer_once_flag, <<tracer>>)
  /\ UNCHANGED <<tracer, tracer_once_flag, tracerVars>>

NextOnce ==
  \/ \E t \in Threads : GetDeviceTracer(t)
  \/ \E t \in Threads : CallOnce(t)
  \/ \E t \in Threads : CallOnceWake(t)
  \/ \E t \in Threads, alloc \in AllocResults : CreateTracer(t, alloc)
  \/ \E t \in Threads : ReturnTracer(t)

SpecOnce == InitOnce /\ [][NextOnce]_vars

\* C12: however the first calls of GetDeviceTracer interleave, one tracer is
\* constructed and no more, and every call that returns hands out that one
\* handle, never nullptr.
C12_ExactlyOnce ==
  /\ tracer \in {0, 1}
  /\ tracer_once_flag = "done" => tracer = 1
  /\ \A t \in Threads : getter[t].ret \in {<<>>, <<1>>}
  /\ (call.op = "GetDeviceTracer" /\ call.result # <<>>) => call.result = <<1>>

\* two first calls met inside call_once: one ran CreateTracer, the other
\* waited for it, and both came back with the handle
C12_Witness ==
  \E t \in Threads, u \in Threads :
    /\ getter[t].via = "ran" /\ getter[t].ret = <<1>> /\ getter[t].pc = "idle"
    /\ getter[u].via = "waited" /\ getter[u].ret = <<1>> /\ getter[u].pc = "idle"

\* ------------------------------------------------------------- claims on Disable
\* C13: Disable makes the source deliver every record it has buffered, and each
\* of them is in the log before end_ns_ is captured and the state becomes
\* disabled: at the step of Disable under the mutex the log has reached the
\* length owed to the records buffered when Disable was called.
C13_FlushBeforeDisable ==
  [][(disable_pc = "flushed" /\ disable_pc' = "idle") =>
       Len(kernel_records_) >= hist.owed]_vars

\* ------------------------------------------------------------- SpecLaunch
\* Threads that set and clear their annotation and launch kernels while the
\* launch callback is subscribed.
NextLaunch ==
  \/ Enable("SUCCESS", 0)
  \/ \E t \in Threads, anno \in Names : SetCurAnnotation(t, anno)
  \/ \E t \in Threads : ClearCurAnnotation(t)
  \/ \E t \in Threads, site \in {"ENTER", "EXIT"}, id \in CorrelationIds :
       ApiCallback(t, site, id)

SpecLaunch == Init /\ [][NextLaunch]_vars

\* C14: the callback of a launch with correlation id c entered on thread t
\* stores under c the annotation of thread t itself if it has one and the
\* symbol name of the kernel otherwise; SetCurAnnotation and ClearCurAnnotation
\* change the calling thread's annotation only and no stored entry.
C14_AnnotationCapture ==
  /\ [][(call'.op = "ApiCallback" /\ call'.args[2] = "ENTER") =>
          correlations_'[ToUInt32(call'.args[3])] =
            (IF cur_annotation[call'.args[1]] # NullAnno
               THEN cur_annotation[call'.args[1]] ELSE SymbolName)]_vars
  /\ [][call'.op \in {"SetCurAnnotation", "ClearCurAnnotation"} =>
          /\ correlations_' = correlations_
          /\ \A u \in Threads \ {call'.args[1]} :
               cur_annotation'[u] = cur_annotation[u]]_vars

\* a launch entered on a thread whose annotation differs from the other
\* thread's has stored the launching thread's text
C14_Witness ==
  /\ call.op = "ApiCallback"
  /\ call.args[2] = "ENTER"
  /\ \E u \in Threads \ {call.args[1]} :
       /\ cur_annotation[u] # NullAnno
       /\ cur_annotation[u] # cur_annotation[call.args[1]]
  /\ cur_annotation[call.args[1]] # NullAnno
  /\ correlations_[ToUInt32(call.args[3])] = cur_annotation[call.args[1]]

\* ------------------------------------------------------------- SpecDrain
\* The source fills a buffer with up to MaxBuffer records and hands it to
\* bufferCompleted, which runs its loop to the end with no other thread between
\* its turns.
RECURSIVE DrainLoop(_, _)
DrainLoop(log, buffer) ==
  IF buffer = <<>> THEN log
  ELSE DrainLoop(DrainTurn(log, Head(buffer)), Tail(buffer))

\* bufferCompleted on the records the source has buffered. err = 0: every
\* cuptiActivityGetNextRecord succeeds until CUPTI_ERROR_MAX_LIMIT_REACHED ends
\* the loop; err = k: the k-th call of the source inside bufferCompleted (a
\* cuptiActivityGetNextRecord, or cuptiActivityGetNumDroppedRecords after the
\* loop) fails otherwise and CUPTI_CALL exits. An empty buffer has validSize 0.
bufferCompleted(err) ==
  /\ ~exited
  /\ inflight = <<>>
  /\ KernelOnly(pending) # <<>> => trace_mu_ = "free"
  /\ err <= Len(pending) + 1
  /\ pending = <<>> => err = 0
  /\ LET read == IF err = 0 THEN pending ELSE SubSeq(pending, 1, err - 1)
     IN  kernel_records_' = DrainLoop(kernel_records_, read)
  /\ pending' = <<>>
  /\ exited' = (err # 0)
  /\ call' = Call("bufferCompleted", <<pending, err>>, kernel_records_,
                  IF err # 0 THEN "exit" ELSE "void")
  /\ UNCHANGED <<enabled_, start_ns_, end_ns_, correlations_, subscriber_,
                 cur_annotation, onceVars, trace_mu_, cupti, inflight, disable_pc, hist>>

NextDrain ==
  \/ Enable("SUCCESS", 0)
  \/ \E kind \in ActivityKinds, id \in CorrelationIds, span \in SourceSpans :
       /\ Len(kernel_records_) + Len(pending) < MaxBuffer
       /\ kind = "MEMCPY" => id = 0
       /\ ActivityRecord(kind, id, span[1], span[2])
  \/ \E err \in 0..(MaxBuffer + 1) : bufferCompleted(err)

SpecDrain == Init /\ [][NextDrain]_vars

\* C15: bufferCompleted on a buffer that holds records appends to the log one
\* KernelRecord for each kernel record of the buffer, in the order of the
\* buffer and with that record's start, end, device, stream and correlation id,
\* and nothing for a record of another kind; the loop runs to the last record.
C15_BufferDrain ==
  [][(call'.op = "bufferCompleted" /\ call'.result = "void"
        /\ call'.args[1] # <<>>) =>
       LET kernels == KernelOnly(call'.args[1])
       IN  kernel_records_' =
             kernel_records_ \o
               [i \in 1..Len(kernels) |->
                  [start_ns |-> kernels[i].start, end_ns |-> kernels[i].end,
                   device_id |-> kernels[i].deviceId,
                   stream_id |-> kernels[i].streamId,
                   correlation_id |-> kernels[i].correlationId]]]_vars

\* a buffer with two kernel records of different ids around a record of
\* another kind has been drained into a log that held a record already
C15_Witness ==
  /\ call.op = "bufferCompleted"
  /\ call.result = "void"
  /\ call.pre # <<>>
  /\ Len(call.args[1]) = 3
  /\ call.args[1][1].kind = "KERNEL"
  /\ call.args[1][2].kind = "MEMCPY"
  /\ call.args[1][3].kind = "KERNEL"
  /\ call.args[1][1].correlationId # call.args[1][3].correlationId
  /\ Len(kernel_records_) = Len(call.pre) + 2

\* ------------------------------------------------------------- claims on the report
\* C16: the events of the report are in the order in which their records were
\* appended to the log: the sequence of events is the log with the
\* unresolvable records left out, every other record at its relative place,
\* whatever the times of the records are.
C16_ReportOrder ==
  Returned =>
    LET kept == SelectSeq(kernel_records_,
                          LAMBDA r : r.correlation_id \in DOMAIN correlations_)
    IN  [i \in 1..Len(Events) |->
           <<Events[i].name, Events[i].start_ns, Events[i].end_ns>>] =
        [i \in 1..Len(kept) |->
           <<correlations_[kept[i].correlation_id], kept[i].start_ns,
             kept[i].end_ns>>]

\* a report of two events whose first starts later than its second: the order
\* of the log, not the order of time
C16_Witness ==
  /\ Returned
  /\ Len(kernel_records_) = 2
  /\ Len(Events) = 2
  /\ Events[1].start_ns > Events[2].start_ns

\* ------------------------------------------------------------- SpecLive
\* Disable among concurrent calls of the other methods, every call on the
\* source succeeding. The thread inside Disable and the thread of the source
\* inside bufferCompleted keep running: each is scheduled again as long as it
\* can take a step.
NextLive ==
  \/ Enable("SUCCESS", 0)
  \/ \E id \in CorrelationIds : AddAnnotation(id, SymbolName)
  \/ \E id \in CorrelationIds, span \in SourceSpans :
       /\ Len(kernel_records_) + Len(pending) + Len(inflight) < MaxSource
       /\ AddKernelRecords(span[1], span[2], 0, 1, id)
  \/ \E kind \in ActivityKinds, id \in CorrelationIds, span \in SourceSpans :
       /\ Len(kernel_records_) + Len(pending) + Len(inflight) < MaxSource
       /\ kind = "MEMCPY" => id = 0
       /\ ActivityRecord(kind, id, span[1], span[2])
  \/ BufferDelivered
  \/ BufferCompletedNext
  \/ DisableFlush(TRUE)
  \/ DisableLocked(0, "SUCCESS")
  \/ IsEnabled
  \/ GenProfile

SpecLive ==
  /\ Init
  /\ [][NextLive]_vars
  /\ WF_vars(BufferCompletedNext)
  /\ WF_vars(DisableLocked(0, "SUCCESS"))

\* C17: Disable flushes before it takes the mutex, so the callbacks of the
\* flush append their records while Disable waits for them; among concurrent
\* AddAnnotation, AddKernelRecords, IsEnabled and GenProfile, and with every
\* call on the source succeeding, a Disable that has started returns, with the
\* tracer disabled.
C17_DisableCompletes ==
  (disable_pc # "idle") ~>
    (call.op = "Disable" /\ call.result = "void" /\ disable_pc = "idle"
       /\ ~enabled_ /\ trace_mu_ = "free")

\* between the flush of Disable and its mutex, a callback of the flush has
\* appended the last record the flush owed
C17_Witness ==
  /\ disable_pc = "flushed"
  /\ call.op = "AddKernelRecords"
  /\ pending = <<>>
  /\ inflight = <<>>
  /\ hist.owed = Len(kernel_records_)

\* ------------------------------------------------------------- claims on the life of the tables
\* C18: Enable, Disable and GenProfile leave the log and the table as they
\* are; over the life of the tracer the log only grows at its end and no key
\* leaves the table, so a report made in a later session has an event for each
\* resolvable record of the log, those of earlier sessions included.
C18_TablesPersist ==
  /\ [][call'.op \in {"Enable", "Disable", "GenProfile"} =>
          /\ kernel_records_' = kernel_records_
          /\ correlations_' = correlations_]_vars
  /\ [][/\ Len(kernel_records_') >= Len(kernel_records_)
        /\ SubSeq(kernel_records_', 1, Len(kernel_records_)) = kernel_records_
        /\ DOMAIN correlations_ \subseteq DOMAIN correlations_']_vars
  /\ [](Returned => Len(Events) = Cardinality(ResolvableIdx))

\* an Enable has started a session on a tracer that was disabled and whose log
\* and table hold what an earlier session left
C18_Witness ==
  /\ call.op = "Enable"
  /\ call.pre = FALSE
  /\ call.result = "void"
  /\ enabled_
  /\ hist.disable_ts # <<>>
  /\ kernel_records_ # <<>>
  /\ DOMAIN correlations_ # {}

\* ------------------------------------------------------------- claims on the key
\* C19: AddAnnotation takes a 64-bit id and stores under its 32-bit key: after
\* it, every correlation id congruent to the id modulo 2^32 finds the text just
\* stored, the table has no key of 2^32 or more, and GenProfile names a record
\* by the entry of its id's residue.
C19_JoinModulo ==
  /\ [][call'.op = "AddAnnotation" =>
          \A c \in 0..(UInt32Mod - 1) :
            (c % UInt32Mod = call'.args[1] % UInt32Mod) =>
              /\ c \in DOMAIN correlations_'
              /\ correlations_'[c] = call'.args[2]]_vars
  /\ [](DOMAIN correlations_ \subseteq 0..(UInt32Mod - 1))
  /\ [](Returned =>
          \A i \in 1..Len(kernel_records_) :
            LET c == kernel_records_[i].correlation_id % UInt32Mod
            IN  c \in DOMAIN correlations_ =>
                  Events[Rank(i)].name = correlations_[c])

\* an AddAnnotation with an id of 2^32 or more has replaced the text that a
\* smaller, congruent id had stored, and the log has a record of that id
C19_Witness ==
  /\ call.op = "AddAnnotation"
  /\ call.args[1] >= UInt32Mod
  /\ call.pre \in Names
  /\ call.pre # call.args[2]
  /\ correlations_[call.args[1] % UInt32Mod] = call.args[2]
  /\ \E i \in 1..Len(kernel_records_) :
       kernel_records_[i].correlation_id = call.args[1] % UInt32Mod

\* ------------------------------------------------------------- claims on ingestion
\* C20: AddAnnotation and AddKernelRecords store what they are given whatever
\* enabled_ is, before the first Enable and after a Disable as well as in a
\* session, and GenProfile reports every resolvable record of the log, so what
\* arrives while the tracer is disabled is in a later report.
C20_IngestAnyState ==
  /\ [][call'.op = "AddAnnotation" =>
          correlations_'[call'.args[1] % UInt32Mod] = call'.args[2]]_vars
  /\ [][call'.op = "AddKernelRecords" =>
          kernel_records_' =
            Append(kernel_records_,
                   [start_ns |-> call'.args[1], end_ns |-> call'.args[2],
                    device_id |-> call'.args[3], stream_id |-> call'.args[4],
                    correlation_id |-> call'.args[5]])]_vars
  /\ [](Returned => Len(Events) = Len(kernel_records_) - Cardinality(UnresolvableIdx))

\* a report made on a tracer that was never enabled has an event: its record
\* and its annotation both arrived while the tracer was disabled
C20_Witness ==
  /\ Returned
  /\ ~enabled_
  /\ hist.enable_ts = <<>>
  /\ hist.last = "none"
  /\ Len(Events) >= 1

====
